---- MODULE Spec2Model ----
(***************************************************************************)
(* Model of the colour-science data modules:                               *)
(*   colour/dataset/colourspaces/rgb/alexa_wide_gamut_rgb.py               *)
(*   colour/models/rgb/datasets/blackmagic.py                              *)
(*                                                                         *)
(* Real numbers are fixed-point integers in millionths (Scale), the        *)
(* precision the coefficient table is printed with.  Products and          *)
(* quotients are exact and rounded once to the nearest millionth; log10    *)
(* and pow are computed digit by digit on a mantissa in [1, 10).           *)
(***************************************************************************)
EXTENDS Integers, Sequences, FiniteSets, TLC

VARIABLES pc, call, coeffs, ret, encoded_from, threads, bcl_data, conversion_data, colourspaces, readme, description, long_description

vars == <<pc, call, coeffs, ret, encoded_from, threads, bcl_data, conversion_data, colourspaces,
          readme, description, long_description>>

(***************************************************************************)
(* Bounds of the enumerated inputs.                                        *)
(***************************************************************************)
\* linear inputs 0.0, 0.5, ..., MaxHalves / 2
MaxHalves == 8
\* encoded inputs 0.0, 0.1, ..., MaxTenths / 10
MaxTenths == 10
\* concurrent callers 1, ..., MaxThreads
MaxThreads == 2
\* README files of 0, ..., MaxLines lines
MaxLines == 4

(***************************************************************************)
(* Fixed-point arithmetic.                                                 *)
(***************************************************************************)
Scale == 10^6
MantScale == 10^7
FracBits == 24

Abs(n) == IF n < 0 THEN -n ELSE n

Sign(n) == IF n < 0 THEN -1 ELSE 1

\* The largest 32-bit signed integer.
MAX_INT == 2147483647

\* The multiplier b of DivMod is consumed in digits of this radix, the
\* largest for which every intermediate value stays within MAX_INT
\* (z is at most MAX_INT \div 3).
Radix(z) == MAX_INT \div z - 1

\* <<q, r>> with a * b = q * z + r and 0 <= r < z, for 0 <= a < z and
\* b >= 0, without ever forming the product a * b: b is taken one digit at
\* a time.
RECURSIVE DivMod(_, _, _)
DivMod(a, b, z) ==
    IF a = 0 \/ b = 0 THEN <<0, 0>>
    ELSE LET h == DivMod(a, b \div Radix(z), z)
             add == a * (b % Radix(z))
             r2 == Radix(z) * h[2] + (add % z)
         IN <<Radix(z) * h[1] + ((add \div z) + (r2 \div z)), r2 % z>>

\* a * b / z rounded to the nearest integer, z > 0: the larger factor is
\* split into a multiple of z and a remainder below z, and the smaller
\* factor is the one taken digit by digit.
MulDiv(a, b, z) ==
    IF a = 0 \/ b = 0 THEN 0
    ELSE LET large == IF Abs(a) >= Abs(b) THEN Abs(a) ELSE Abs(b)
             small == IF Abs(a) >= Abs(b) THEN Abs(b) ELSE Abs(a)
             p == DivMod(large % z, small, z)
             q == (large \div z) * small + p[1]
                  + (IF 2 * p[2] >= z THEN 1 ELSE 0)
         IN Sign(a) * Sign(b) * q

\* Mantissas are multiplied in two limbs: LIMB * LIMB = 10 * MantScale.
LIMB == 10^4

\* a * b / MantScale rounded to the nearest integer, for mantissas
\* 0 <= a, b < 10 * MantScale: with a = a1 * LIMB + a0 and
\* b = b1 * LIMB + b0 the product is
\* a1 * b1 * LIMB^2 + (a1 * b0 + a0 * b1) * LIMB + a0 * b0.
MantMul(a, b) ==
    LET mid == (a \div LIMB) * (b % LIMB) + (a % LIMB) * (b \div LIMB)
        low == (mid % (MantScale \div LIMB)) * LIMB + (a % LIMB) * (b % LIMB)
        q == (a \div LIMB) * (b \div LIMB) * 10
             + mid \div (MantScale \div LIMB) + low \div MantScale
    IN q + (IF 2 * (low % MantScale) >= MantScale THEN 1 ELSE 0)

\* x * y of two fixed-point numbers.
Mul(x, y) == MulDiv(x, y, Scale)

\* x / y of two fixed-point numbers, y # 0.
Div(x, y) == Sign(y) * MulDiv(x, Scale, Abs(y))

\* Decimal exponent k and mantissa m, MantScale <= m < 10 * MantScale, of a
\* fixed-point x > 0: x / Scale = (m / MantScale) * 10^k.
RECURSIVE Normalise(_, _)
Normalise(m, k) ==
    IF m >= 10 * MantScale THEN Normalise(m \div 10, k + 1)
    ELSE IF m < MantScale THEN Normalise(m * 10, k - 1)
    ELSE <<m, k>>

\* The first binary digit of log10(m / MantScale): squaring doubles the
\* logarithm, and the square reaches 10 exactly when the digit is 1.
LogBit(m) == IF MantMul(m, m) >= 10 * MantScale THEN 1 ELSE 0

\* The mantissa whose logarithm holds the digits after the first.
LogShift(m) == IF LogBit(m) = 1 THEN MantMul(m, m) \div 10 ELSE MantMul(m, m)

\* The first n binary digits of log10(m / MantScale), as an integer below
\* 2^n, four digits at a time (n is a multiple of 4).
RECURSIVE LogBits(_, _)
LogBits(m, n) ==
    IF n = 0 THEN 0
    ELSE LET m1 == LogShift(m)
             m2 == LogShift(m1)
             m3 == LogShift(m2)
         IN (8 * LogBit(m) + 4 * LogBit(m1) + 2 * LogBit(m2) + LogBit(m3))
                * 2^(n - 4)
            + LogBits(LogShift(m3), n - 4)

\* math.log10 on a fixed-point x > 0.
Log10(x) ==
    LET nm == IF x >= 10 * MantScale
              THEN Normalise(x \div 10, 2)
              ELSE Normalise(x * 10, 0)
    IN nm[2] * Scale + MulDiv(LogBits(nm[1], FracBits), Scale, 2^FracBits)

\* 10^(2^-i) for i = 1 .. FracBits, on the mantissa scale.
POW10_ROOTS ==
    <<31622777, 17782794, 13335214, 11547820, 10746078, 10366329,
      10181517, 10090350, 10045074, 10022511, 10011249, 10005623,
      10002811, 10001405, 10000703, 10000351, 10000176, 10000088,
      10000044, 10000022, 10000011, 10000005, 10000003, 10000001>>

\* m times 10^(2^-i) when binary digit i of acc is 1, m otherwise.
TimesRoot(m, acc, i) ==
    IF (acc \div 2^(FracBits - i)) % 2 = 1
    THEN MantMul(m, POW10_ROOTS[i])
    ELSE m

\* 10^(acc / 2^FracBits) on the mantissa scale: the product of the roots
\* selected by the binary digits of acc, two digits at a time.
RECURSIVE PowBits(_, _, _)
PowBits(acc, i, m) ==
    IF m = 0 \/ i > FracBits THEN m
    ELSE PowBits(acc, i + 2, TimesRoot(TimesRoot(m, acc, i), acc, i + 1))

\* The largest exponent y, in millionths, for which 10^y is a finite double
\* (log10 of the largest double is 308.254715...); math.pow raises
\* OverflowError above it.
POW10_MAX_EXPONENT == 308254715

\* math.pow(10, y) on a fixed-point y at most POW10_MAX_EXPONENT.
Pow10(y) ==
    LET k == y \div Scale
        f == y % Scale
        m == PowBits(DivMod(f, 2^FracBits, Scale)[1], 1, MantScale)
    IN IF k >= 1 THEN m * 10^(k - 1)
       ELSE IF k < -8 THEN 0
       ELSE m \div 10^(1 - k)
            + (IF 2 * (m % 10^(1 - k)) >= 10^(1 - k) THEN 1 ELSE 0)

(***************************************************************************)
(* Python dictionaries.                                                    *)
(***************************************************************************)
\* A dict display {k1: v1, k2: v2, ...}: the items are stored in order, so a
\* key written twice keeps the value written last.
DictLiteral(items) ==
    LET keys == {items[i][1] : i \in DOMAIN items}
        last(k) == CHOOSE i \in DOMAIN items :
                      /\ items[i][1] = k
                      /\ \A j \in DOMAIN items : items[j][1] = k => j <= i
    IN [k \in keys |-> items[last(k)][2]]

\* dict.get(key): <<value>> when the key is present, <<>> (None) otherwise.
DictGet(dict, key) == IF key \in DOMAIN dict THEN <<dict[key]>> ELSE <<>>

(***************************************************************************)
(* alexa_wide_gamut_rgb.py                                                 *)
(***************************************************************************)
LSEF == "Linear Scene Exposure Factor"

NSS == "Normalised Sensor Signal"

\* (cut, a, b, c, d, e, f, ecutf) by firmware, method and EI, in millionths.
\* The second coefficient table of the module; its numbers are in millionths.
ALEXA_LOG_C_CURVE_BCL_DATA ==
    DictLiteral(<<
        <<"SUP 3.x", DictLiteral(<<
            <<160, <<92800, 812800>>>>,
            <<200, <<92800, 834100>>>>,
            <<250, <<92800, 854900>>>>,
            <<320, <<92800, 877300>>>>,
            <<400, <<92800, 896800>>>>,
            <<500, <<92800, 915800>>>>,
            <<640, <<92800, 936200>>>>,
            <<800, <<92800, 953900>>>>,
            <<1000, <<92800, 971100>>>>,
            <<1280, <<92800, 989500>>>>,
            <<1600, <<92800, 1000000>>>>,
            <<2000, <<92800, 1000000>>>>,
            <<2560, <<92800, 1000000>>>>,
            <<3200, <<92800, 1000000>>>>>>)>>,
        <<"SUP 2.x", DictLiteral(<<
            <<160, <<108300, 811000>>>>,
            <<200, <<111500, 832000>>>>,
            <<250, <<114600, 852400>>>>,
            <<320, <<118100, 874300>>>>,
            <<400, <<121300, 893500>>>>,
            <<500, <<124500, 912100>>>>,
            <<640, <<128000, 932000>>>>,
            <<800, <<131100, 949400>>>>,
            <<1000, <<134300, 966200>>>>,
            <<1280, <<137800, 984100>>>>,
            <<1600, <<140900, 999700>>>>>>)>>>>)

ALEXA_LOG_C_CURVE_CONVERSION_DATA ==
    DictLiteral(<<
        <<"SUP 3.x", DictLiteral(<<
            <<"Normalised Sensor Signal", DictLiteral(<<
                <<160, <<4680, 40000000, -76072, 269036, 381991, 42062665, -71569, 125266>>>>,
                <<200, <<4597, 50000000, -118740, 266007, 382478, 51986387, -110339, 128643>>>>,
                <<250, <<4518, 62500000, -171260, 262978, 382966, 64243053, -158224, 132021>>>>,
                <<320, <<4436, 80000000, -243808, 259627, 383508, 81183335, -224409, 135761>>>>,
                <<400, <<4369, 100000000, -325820, 256598, 383999, 100295280, -299079, 139142>>>>,
                <<500, <<4309, 125000000, -427461, 253569, 384493, 123889239, -391261, 142526>>>>,
                <<640, <<4249, 160000000, -568709, 250219, 385040, 156482680, -518605, 146271>>>>,
                <<800, <<4201, 200000000, -729169, 247190, 385537, 193235573, -662201, 149658>>>>,
                <<1000, <<4160, 250000000, -928805, 244161, 386036, 238584745, -839385, 153047>>>>,
                <<1280, <<4120, 320000000, -1207168, 240810, 386590, 301197380, -1084020, 156799>>>>,
                <<1600, <<4088, 400000000, -1524256, 237781, 387093, 371761171, -1359723, 160192>>>>
            >>)>>,
            <<"Linear Scene Exposure Factor", DictLiteral(<<
                <<160, <<5561, 5555556, 80216, 269036, 381991, 5842037, 92778, 125266>>>>,
                <<200, <<6208, 5555556, 76621, 266007, 382478, 5776265, 92782, 128643>>>>,
                <<250, <<6871, 5555556, 72941, 262978, 382966, 5710494, 92786, 132021>>>>,
                <<320, <<7622, 5555556, 68768, 259627, 383508, 5637732, 92791, 135761>>>>,
                <<400, <<8318, 5555556, 64901, 256598, 383999, 5571960, 92795, 139142>>>>,
                <<500, <<9031, 5555556, 60939, 253569, 384493, 5506188, 92800, 142526>>>>,
                <<640, <<9840, 5555556, 56443, 250219, 385040, 5433426, 92805, 146271>>>>,
                <<800, <<10591, 5555556, 52272, 247190, 385537, 5367655, 92809, 149658>>>>,
                <<1000, <<11361, 5555556, 47996, 244161, 386036, 5301883, 92814, 153047>>>>,
                <<1280, <<12235, 5555556, 43137, 240810, 386590, 5229121, 92819, 156799>>>>,
                <<1600, <<13047, 5555556, 38625, 237781, 387093, 5163350, 92824, 160190>>>>
            >>)>>
        >>)>>,
        <<"SUP 3.x", DictLiteral(<<
            <<"Normalised Sensor Signal", DictLiteral(<<
                <<160, <<3907, 36439829, -53366, 269035, 391007, 45593473, -69772, 108360>>>>,
                <<200, <<3907, 45549786, -88959, 266007, 391007, 55709581, -106114, 111540>>>>,
                <<250, <<3907, 56937232, -133449, 262978, 391007, 67887153, -150510, 114720>>>>,
                <<320, <<3907, 72879657, -195737, 259627, 391007, 84167616, -210597, 118240>>>>,
                <<400, <<3907, 91099572, -266922, 256598, 391007, 101811426, -276349, 121420>>>>,
                <<500, <<3907, 113874465, -355903, 253569, 391007, 122608379, -354421, 124610>>>>,
                <<640, <<3907, 145759315, -480477, 250218, 391007, 149703304, -456760, 128130>>>>,
                <<800, <<3907, 182199144, -622848, 247189, 391007, 178216873, -564981, 131310>>>>,
                <<1000, <<3907, 227748930, -800811, 244161, 391007, 210785040, -689043, 134490>>>>,
                <<1280, <<3907, 291518630, -1049959, 240810, 391007, 251689459, -845336, 138010>>>>,
                <<1600, <<3907, 364398287, -1334700, 237781, 391007, 293073575, -1003841, 141190>>>>
            >>)>>,
            <<"Linear Scene Exposure Factor", DictLiteral(<<
                <<160, <<0, 5061087, 89004, 269035, 391007, 6332427, 108361, 108361>>>>,
                <<200, <<0, 5061087, 89004, 266007, 391007, 6189953, 111543, 111543>>>>,
                <<250, <<0, 5061087, 89004, 262978, 391007, 6034414, 114725, 114725>>>>,
                <<320, <<0, 5061087, 89004, 259627, 391007, 5844973, 118246, 118246>>>>,
                <<400, <<0, 5061087, 89004, 256598, 391007, 5656190, 121428, 121428>>>>,
                <<500, <<0, 5061087, 89004, 253569, 391007, 5449261, 124610, 124610>>>>,
                <<640, <<0, 5061087, 89004, 250218, 391007, 5198031, 128130, 128130>>>>,
                <<800, <<0, 5061087, 89004, 247189, 391007, 4950469, 131313, 131313>>>>,
                <<1000, <<0, 5061087, 89004, 244161, 391007, 4684112, 134495, 134495>>>>,
                <<1280, <<0, 5061087, 89004, 240810, 391007, 4369609, 138015, 138015>>>>,
                <<1600, <<0, 5061087, 89004, 237781, 391007, 4070466, 141197, 141190>>>>
            >>)>>
        >>)>>
    >>)

\* The unpacked tuple.
Cut(t) == t[1]

A(t) == t[2]

B(t) == t[3]

C(t) == t[4]

D(t) == t[5]

E(t) == t[6]

F(t) == t[7]

Ecutf(t) == t[8]

Returns(v) == [kind |-> "value", val |-> v, exc |-> "none"]

Raises(e) == [kind |-> "raise", val |-> 0, exc |-> e]

NoReturn == [kind |-> "none", val |-> 0, exc |-> "none"]

\* ALEXA_LOG_C_CURVE_CONVERSION_DATA.get(firmware).get(method).get(EI) and
\* the unpacking of its result: None has no attribute get (AttributeError)
\* and cannot be unpacked (TypeError).
ConversionDataLookup(data, firmware, method, EI) ==
    LET byFirmware == DictGet(data, firmware)
        byMethod == DictGet(byFirmware[1], method)
        byEI == DictGet(byMethod[1], EI)
    IN IF byFirmware = <<>> THEN [exc |-> "AttributeError", tuple |-> <<>>]
       ELSE IF byMethod = <<>> THEN [exc |-> "AttributeError", tuple |-> <<>>]
       ELSE IF byEI = <<>> THEN [exc |-> "TypeError", tuple |-> <<>>]
       ELSE [exc |-> "none", tuple |-> byEI[1]]

\* A variant that subtracts b.
LogSegmentSubtractsB(t, value) ==
    LET arg == Mul(A(t), value) - B(t)
    IN IF arg <= 0 THEN Raises("ValueError")
       ELSE Returns(Mul(C(t), Log10(arg)) + D(t))

\* c * math.log10(a * value + b) + d; math.log10 raises ValueError unless
\* its argument is positive.
LogSegment(t, value) ==
    LET arg == Mul(A(t), value) + B(t)
    IN IF arg <= 0 THEN Raises("ValueError")
       ELSE Returns(Mul(C(t), Log10(arg)) + D(t))

\* A variant with a linear segment e * value + f below the crossover.
TransferFunctionLinearBelowCut(data, value, firmware, method, EI) ==
    LET found == ConversionDataLookup(data, firmware, method, EI)
        t == found.tuple
    IN IF found.exc # "none" THEN Raises(found.exc)
       ELSE IF value > Cut(t) THEN LogSegment(t, value)
       ELSE Returns(Mul(E(t), value) + F(t))

\* A variant that takes the logarithmic segment at the crossover itself.
TransferFunctionLogAtCut(data, value, firmware, method, EI) ==
    LET found == ConversionDataLookup(data, firmware, method, EI)
        t == found.tuple
    IN IF found.exc # "none" THEN Raises(found.exc)
       ELSE IF value >= Cut(t) THEN LogSegment(t, value)
       ELSE Returns(Ecutf(t))

ALEXA_WIDE_GAMUT_RGB_TRANSFER_FUNCTION(data, value, firmware, method, EI) ==
    LET found == ConversionDataLookup(data, firmware, method, EI)
        t == found.tuple
    IN IF found.exc # "none" THEN Raises(found.exc)
       ELSE IF value > Cut(t) THEN LogSegment(t, value)
       ELSE Returns(Ecutf(t))

\* (math.pow(10, (value - d) / c) - b) / a
ExpSegment(t, value) ==
    IF C(t) = 0 \/ A(t) = 0 THEN Raises("ZeroDivisionError")
    ELSE LET y == Div(value - D(t), C(t))
         IN IF y > POW10_MAX_EXPONENT THEN Raises("OverflowError")
            ELSE Returns(Div(Pow10(y) - B(t), A(t)))

\* (value - f) / e
LinearSegment(t, value) ==
    IF E(t) = 0 THEN Raises("ZeroDivisionError")
    ELSE Returns(Div(value - F(t), E(t)))

\* A variant that compares the encoded value with cut instead of ecutf.
InverseComparesWithCut(data, value, firmware, method, EI) ==
    LET found == ConversionDataLookup(data, firmware, method, EI)
        t == found.tuple
    IN IF found.exc # "none" THEN Raises(found.exc)
       ELSE IF value > Cut(t) THEN ExpSegment(t, value)
       ELSE LinearSegment(t, value)

ALEXA_WIDE_GAMUT_RGB_INVERSE_TRANSFER_FUNCTION(data, value, firmware, method, EI) ==
    LET found == ConversionDataLookup(data, firmware, method, EI)
        t == found.tuple
    IN IF found.exc # "none" THEN Raises(found.exc)
       ELSE IF value > Ecutf(t) THEN ExpSegment(t, value)
       ELSE LinearSegment(t, value)


(***************************************************************************)
(* Exact arithmetic for the matrices.  The matrices are rational: an       *)
(* integer matrix over a common denominator.  The integers are far wider   *)
(* than a machine word (up to 80 decimal digits in the product of a matrix *)
(* and its inverse), so an integer is held as its residues modulo the      *)
(* pairwise distinct primes MODULI, whose product has 93 digits: sums,     *)
(* differences and products are taken residue by residue, and two integers *)
(* of that range are equal exactly when all their residues are.            *)
(***************************************************************************)
MODULI ==
    <<46337, 46327, 46309, 46307, 46301, 46279, 46273, 46271, 46261, 46237,
      46229, 46219, 46199, 46187, 46183, 46181, 46171, 46153, 46147, 46141>>

Big(n) == [i \in DOMAIN MODULI |-> n % MODULI[i]]

BAdd(x, y) == [i \in DOMAIN MODULI |-> (x[i] + y[i]) % MODULI[i]]

BSub(x, y) == [i \in DOMAIN MODULI |-> (x[i] - y[i]) % MODULI[i]]

BMul(x, y) == [i \in DOMAIN MODULI |-> (x[i] * y[i]) % MODULI[i]]

\* indices 1, 2, 3 taken cyclically
Cyc(i) == ((i - 1) % 3) + 1

BigMatrix(m) == [i \in 1..3 |-> [j \in 1..3 |-> Big(m[i][j])]]

MatScale(s, m) == [i \in 1..3 |-> [j \in 1..3 |-> BMul(s, m[i][j])]]

MatMul(x, y) ==
    [i \in 1..3 |-> [j \in 1..3 |->
        BAdd(BAdd(BMul(x[i][1], y[1][j]), BMul(x[i][2], y[2][j])),
             BMul(x[i][3], y[3][j]))]]

MatVec(x, v) ==
    [i \in 1..3 |->
        BAdd(BAdd(BMul(x[i][1], v[1]), BMul(x[i][2], v[2])), BMul(x[i][3], v[3]))]

\* the cofactor of m[i][j]
Cofactor(m, i, j) ==
    BSub(BMul(m[Cyc(i + 1)][Cyc(j + 1)], m[Cyc(i + 2)][Cyc(j + 2)]),
         BMul(m[Cyc(i + 1)][Cyc(j + 2)], m[Cyc(i + 2)][Cyc(j + 1)]))

Adjugate(m) == [i \in 1..3 |-> [j \in 1..3 |-> Cofactor(m, j, i)]]

Determinant(m) ==
    BAdd(BAdd(BMul(m[1][1], Cofactor(m, 1, 1)), BMul(m[1][2], Cofactor(m, 1, 2))),
         BMul(m[1][3], Cofactor(m, 1, 3)))

\* rational matrices: num / den
Rational(m, den) == [num |-> BigMatrix(m), den |-> Big(den)]

IDENTITY == Rational(<<<<1, 0, 0>>, <<0, 1, 0>>, <<0, 0, 1>>>>, 1)

\* x = y as rational matrices
RationalEq(x, y) ==
    /\ x.den # Big(0)
    /\ y.den # Big(0)
    /\ \A i, j \in 1..3 : BMul(x.num[i][j], y.den) = BMul(y.num[i][j], x.den)

\* numpy.dot of two matrices
dot(x, y) == [num |-> MatMul(x.num, y.num), den |-> BMul(x.den, y.den)]

\* numpy.linalg.inv and numpy.matrix.getI: the adjugate over the determinant
inv(x) == [num |-> MatScale(x.den, Adjugate(x.num)), den |-> Determinant(x.num)]

\* Chromaticity coordinates are integers in ten-thousandths.
XY_SCALE == 10^4

\* The RGB to XYZ matrix of a set of primaries and a whitepoint: the matrix
\* P of the XYZ projections (x, y, 1 - x - y) of the primaries, one column a
\* primary, times the diagonal scaling inv(P) . W for which the whitepoint
\* W = (x / y, 1, (1 - x - y) / y) maps to unit luminance.
normalised_primary_matrix(primaries, whitepoint) ==
    LET P == Rational([i \in 1..3 |-> [k \in 1..3 |->
                          IF i = 3 THEN XY_SCALE - primaries[k][1] - primaries[k][2]
                          ELSE primaries[k][i]]],
                      XY_SCALE)
        W == <<Big(whitepoint[1]), Big(whitepoint[2]),
               Big(XY_SCALE - whitepoint[1] - whitepoint[2])>>
        Wden == Big(whitepoint[2])
        coefficients == MatVec(inv(P).num, W)
        coefficientsDen == BMul(inv(P).den, Wden)
    IN [num |-> [i \in 1..3 |-> [k \in 1..3 |-> BMul(P.num[i][k], coefficients[k])]],
        den |-> BMul(P.den, coefficientsDen)]

\* The chromaticity coordinates of the illuminants, by observer and name.
CCS_ILLUMINANTS ==
    [o \in {"CIE 1931 2 Degree Standard Observer"} |->
        [n \in {"D65"} |-> <<3127, 3290>>]]

ILLUMINANTS == CCS_ILLUMINANTS

\* The record of a colourspace.
RGB_Colourspace(name, primaries, whitepoint, whitepoint_name, matrix_RGB_to_XYZ, matrix_XYZ_to_RGB, cctf_encoding, cctf_decoding) ==
    [name |-> name,
     primaries |-> primaries,
     whitepoint |-> whitepoint,
     whitepoint_name |-> whitepoint_name,
     matrix_RGB_to_XYZ |-> matrix_RGB_to_XYZ,
     matrix_XYZ_to_RGB |-> matrix_XYZ_to_RGB,
     cctf_encoding |-> cctf_encoding,
     cctf_decoding |-> cctf_decoding]

\* The older record has no whitepoint name.
Colourspace(name, primaries, whitepoint, to_XYZ, from_XYZ, transfer_function, inverse_transfer_function) ==
    RGB_Colourspace(name, primaries, whitepoint, "",
                    to_XYZ, from_XYZ, transfer_function, inverse_transfer_function)

\* A variant that fills the rows of the matrix column by column.
ReshapeColumnMajor(flat, rows, cols) ==
    [i \in 1..rows |-> [j \in 1..cols |-> flat[(j - 1) * rows + i]]]

\* numpy's reshape((rows, cols)) of a flat list: the rows are filled one
\* after the other.
reshape(flat, rows, cols) ==
    [i \in 1..rows |-> [j \in 1..cols |-> flat[(i - 1) * cols + j]]]

ALEXA_WIDE_GAMUT_RGB_PRIMARIES ==
    reshape(<<6840, 3130,
              2210, 8480,
              861, -1020>>, 3, 2)

ALEXA_WIDE_GAMUT_RGB_WHITEPOINT ==
    ILLUMINANTS["CIE 1931 2 Degree Standard Observer"]["D65"]

ALEXA_WIDE_GAMUT_RGB_TO_XYZ_MATRIX ==
    Rational(reshape(<<638008, 214704, 97744,
                       291954, 823841, -115795,
                       2798, -67034, 1153294>>, 3, 3), Scale)

XYZ_TO_ALEXA_WIDE_GAMUT_RGB_MATRIX == inv(ALEXA_WIDE_GAMUT_RGB_TO_XYZ_MATRIX)

ALEXA_WIDE_GAMUT_RGB_COLOURSPACE ==
    Colourspace("ALEXA Wide Gamut RGB",
                ALEXA_WIDE_GAMUT_RGB_PRIMARIES,
                ALEXA_WIDE_GAMUT_RGB_WHITEPOINT,
                ALEXA_WIDE_GAMUT_RGB_TO_XYZ_MATRIX,
                XYZ_TO_ALEXA_WIDE_GAMUT_RGB_MATRIX,
                "ALEXA_WIDE_GAMUT_RGB_TRANSFER_FUNCTION",
                "ALEXA_WIDE_GAMUT_RGB_INVERSE_TRANSFER_FUNCTION")

(***************************************************************************)
(* blackmagic.py                                                           *)
(***************************************************************************)
BMD_FILM_V1_PRIMARIES ==
    <<<<9173, 2502>>,
      <<2833, 17072>>,
      <<856, -708>>>>

BMD_FILM_V1_WHITEPOINT_NAME == "BMD White"

BMD_FILM_V1_WHITEPOINT == <<3135, 3305>>

BMD_FILM_V1_TO_XYZ_MATRIX ==
    normalised_primary_matrix(BMD_FILM_V1_PRIMARIES, BMD_FILM_V1_WHITEPOINT)

XYZ_TO_BMD_FILM_V1_MATRIX == inv(BMD_FILM_V1_TO_XYZ_MATRIX)

RGB_COLOURSPACE_BMD_FILM_V1 ==
    RGB_Colourspace("BMD Film V1",
                    BMD_FILM_V1_PRIMARIES,
                    BMD_FILM_V1_WHITEPOINT,
                    BMD_FILM_V1_WHITEPOINT_NAME,
                    BMD_FILM_V1_TO_XYZ_MATRIX,
                    XYZ_TO_BMD_FILM_V1_MATRIX,
                    "log_encoding_BMDFilm",
                    "log_decoding_BMDFilm")

BMD_4K_FILM_V1_PRIMARIES ==
    <<<<7422, 2859>>,
      <<4140, 13035>>,
      <<342, -833>>>>

BMD_4K_FILM_V1_WHITEPOINT_NAME == "BMD White"

BMD_4K_FILM_V1_WHITEPOINT == <<3135, 3305>>

BMD_4K_FILM_V1_TO_XYZ_MATRIX ==
    normalised_primary_matrix(BMD_4K_FILM_V1_PRIMARIES, BMD_4K_FILM_V1_WHITEPOINT)

XYZ_TO_BMD_4K_FILM_V1_MATRIX == inv(BMD_4K_FILM_V1_TO_XYZ_MATRIX)

RGB_COLOURSPACE_BMD_4K_FILM_V1 ==
    RGB_Colourspace("BMD 4K Film V1",
                    BMD_4K_FILM_V1_PRIMARIES,
                    BMD_4K_FILM_V1_WHITEPOINT,
                    BMD_4K_FILM_V1_WHITEPOINT_NAME,
                    BMD_4K_FILM_V1_TO_XYZ_MATRIX,
                    XYZ_TO_BMD_4K_FILM_V1_MATRIX,
                    "log_encoding_BMD4KFilm",
                    "log_decoding_BMD4KFilm")

BMD_4K_FILM_V3_PRIMARIES ==
    <<<<10625, 3948>>,
      <<3689, 7775>>,
      <<956, -332>>>>

BMD_4K_FILM_V3_WHITEPOINT_NAME == "BMD White"

BMD_4K_FILM_V3_WHITEPOINT == <<3135, 3305>>

\* A variant derived from the primaries of BMD 4K Film V1.
DerivedFromBMD4KFilmV1Primaries ==
    normalised_primary_matrix(BMD_4K_FILM_V1_PRIMARIES, BMD_4K_FILM_V3_WHITEPOINT)

BMD_4K_FILM_V3_TO_XYZ_MATRIX ==
    normalised_primary_matrix(BMD_4K_FILM_V3_PRIMARIES, BMD_4K_FILM_V3_WHITEPOINT)

\* A variant that inverts the matrix of BMD 4K Film V1.
InverseOfBMD4KFilmV1Matrix == inv(BMD_4K_FILM_V1_TO_XYZ_MATRIX)

XYZ_TO_BMD_4K_FILM_V3_MATRIX == inv(BMD_4K_FILM_V3_TO_XYZ_MATRIX)

RGB_COLOURSPACE_BMD_4K_FILM_V3 ==
    RGB_Colourspace("BMD 4K Film V3",
                    BMD_4K_FILM_V3_PRIMARIES,
                    BMD_4K_FILM_V3_WHITEPOINT,
                    BMD_4K_FILM_V3_WHITEPOINT_NAME,
                    BMD_4K_FILM_V3_TO_XYZ_MATRIX,
                    XYZ_TO_BMD_4K_FILM_V3_MATRIX,
                    "log_encoding_BMD4KFilm",
                    "log_decoding_BMD4KFilm")

BMD_46K_FILM_V1_PRIMARIES ==
    <<<<9175, 2983>>,
      <<2983, 12835>>,
      <<756, -860>>>>

BMD_46K_FILM_V1_WHITEPOINT_NAME == "D65"

BMD_46K_FILM_V1_WHITEPOINT ==
    CCS_ILLUMINANTS["CIE 1931 2 Degree Standard Observer"][BMD_46K_FILM_V1_WHITEPOINT_NAME]

BMD_46K_FILM_V1_TO_XYZ_MATRIX ==
    normalised_primary_matrix(BMD_46K_FILM_V1_PRIMARIES, BMD_46K_FILM_V1_WHITEPOINT)

XYZ_TO_BMD_46K_FILM_V1_MATRIX == inv(BMD_46K_FILM_V1_TO_XYZ_MATRIX)

RGB_COLOURSPACE_BMD_46K_FILM_V1 ==
    RGB_Colourspace("BMD 46K Film V1",
                    BMD_46K_FILM_V1_PRIMARIES,
                    BMD_46K_FILM_V1_WHITEPOINT,
                    BMD_46K_FILM_V1_WHITEPOINT_NAME,
                    BMD_46K_FILM_V1_TO_XYZ_MATRIX,
                    XYZ_TO_BMD_46K_FILM_V1_MATRIX,
                    "log_encoding_BMD46KFilm",
                    "log_decoding_BMD46KFilm")

BMD_46K_FILM_V3_PRIMARIES ==
    <<<<8608, 3689>>,
      <<3282, 6156>>,
      <<783, -233>>>>

BMD_46K_FILM_V3_WHITEPOINT_NAME == "D65"

\* A variant that takes the literal whitepoint of the BMD Film V1 record.
WhitepointOfBMDFilmV1 == BMD_FILM_V1_WHITEPOINT

BMD_46K_FILM_V3_WHITEPOINT ==
    CCS_ILLUMINANTS["CIE 1931 2 Degree Standard Observer"][BMD_46K_FILM_V3_WHITEPOINT_NAME]

BMD_46K_FILM_V3_TO_XYZ_MATRIX ==
    normalised_primary_matrix(BMD_46K_FILM_V3_PRIMARIES, BMD_46K_FILM_V3_WHITEPOINT)

XYZ_TO_BMD_46K_FILM_V3_MATRIX == inv(BMD_46K_FILM_V3_TO_XYZ_MATRIX)

RGB_COLOURSPACE_BMD_46K_FILM_V3 ==
    RGB_Colourspace("BMD 46K Film V3",
                    BMD_46K_FILM_V3_PRIMARIES,
                    BMD_46K_FILM_V3_WHITEPOINT,
                    BMD_46K_FILM_V3_WHITEPOINT_NAME,
                    BMD_46K_FILM_V3_TO_XYZ_MATRIX,
                    XYZ_TO_BMD_46K_FILM_V3_MATRIX,
                    "log_encoding_BMD46KFilm",
                    "log_decoding_BMD46KFilm")

BMD_WIDE_GAMUT_V4_PRIMARIES ==
    <<<<7177, 3171>>,
      <<2280, 8616>>,
      <<1006, -820>>>>

BMD_WIDE_GAMUT_V4_WHITEPOINT_NAME == "D65"

BMD_WIDE_GAMUT_V4_WHITEPOINT ==
    CCS_ILLUMINANTS["CIE 1931 2 Degree Standard Observer"][BMD_WIDE_GAMUT_V4_WHITEPOINT_NAME]

BMD_WIDE_GAMUT_V4_TO_XYZ_MATRIX ==
    normalised_primary_matrix(BMD_WIDE_GAMUT_V4_PRIMARIES, BMD_WIDE_GAMUT_V4_WHITEPOINT)

XYZ_TO_BMD_WIDE_GAMUT_V4_MATRIX == inv(BMD_WIDE_GAMUT_V4_TO_XYZ_MATRIX)

\* A variant of the last record whose decoding function is the one of
\* the Pocket 6K curve, which the module imports next to the Pocket 4K one.
WideGamutV4DecodedAsPocket6K ==
    RGB_Colourspace("BMD Wide Gamut V4",
                    BMD_WIDE_GAMUT_V4_PRIMARIES,
                    BMD_WIDE_GAMUT_V4_WHITEPOINT,
                    BMD_WIDE_GAMUT_V4_WHITEPOINT_NAME,
                    BMD_WIDE_GAMUT_V4_TO_XYZ_MATRIX,
                    XYZ_TO_BMD_WIDE_GAMUT_V4_MATRIX,
                    "log_encoding_BMDPocket4KFilmV4",
                    "log_decoding_BMDPocket6KFilmV4")

RGB_COLOURSPACE_BMD_WIDE_GAMUT_V4 ==
    RGB_Colourspace("BMD Wide Gamut V4",
                    BMD_WIDE_GAMUT_V4_PRIMARIES,
                    BMD_WIDE_GAMUT_V4_WHITEPOINT,
                    BMD_WIDE_GAMUT_V4_WHITEPOINT_NAME,
                    BMD_WIDE_GAMUT_V4_TO_XYZ_MATRIX,
                    XYZ_TO_BMD_WIDE_GAMUT_V4_MATRIX,
                    "log_encoding_BMDPocket4KFilmV4",
                    "log_decoding_BMDPocket4KFilmV4")

\* The colourspaces of blackmagic.py.
BLACKMAGIC_COLOURSPACES ==
    {RGB_COLOURSPACE_BMD_FILM_V1, RGB_COLOURSPACE_BMD_4K_FILM_V1,
     RGB_COLOURSPACE_BMD_4K_FILM_V3, RGB_COLOURSPACE_BMD_46K_FILM_V1,
     RGB_COLOURSPACE_BMD_46K_FILM_V3, RGB_COLOURSPACE_BMD_WIDE_GAMUT_V4}

\* The colourspaces the two modules define, by name.
COLOURSPACES ==
    LET all == BLACKMAGIC_COLOURSPACES \cup {ALEXA_WIDE_GAMUT_RGB_COLOURSPACE}
    IN [n \in {cs.name : cs \in all} |-> CHOOSE cs \in all : cs.name = n]

(***************************************************************************)
(* Calls.                                                                  *)
(***************************************************************************)
\* the firmwares of the docstrings, and one that is in no table
FIRMWARES == {"SUP 2.x", "SUP 3.x", "SUP 4.x"}

\* the methods of the docstrings, and one that is in no table
METHODS == {LSEF, NSS, "Video"}

\* the exposure indices the conversion table lists, and one it does not
LISTED_EIS == {160, 200, 250, 320, 400, 500, 640, 800, 1000, 1280, 1600}

EIS == LISTED_EIS \cup {2000}

\* scene-linear inputs: below, at and just above the crossovers the table
\* holds, the representative values 0.001, 0.18, 1.0 and 4.0, and a grid
LINEAR_INPUTS ==
    {-1000, 0, 1, 1000, 3907, 3908, 10591, 180000}
        \cup {h * (Scale \div 2) : h \in 0..MaxHalves}

\* encoded inputs: a grid over [0, 1], and a value far outside it
ENCODED_INPUTS ==
    {t * (Scale \div 10) : t \in 0..MaxTenths} \cup {100 * Scale}

\* The concurrent callers.
THREADS == 1..MaxThreads

NoCall == [fn |-> "none", value |-> 0, firmware |-> "", method |-> "", EI |-> 0]

\* A caller that is in neither function: local is the result of the last
\* dict.get of the lookup chain.
IdleThread == [pc |-> "idle", call |-> NoCall, local |-> <<>>, ret |-> NoReturn]

Init ==
    /\ pc = "idle"
    /\ call = NoCall
    /\ coeffs = <<>>
    /\ ret = NoReturn
    /\ encoded_from = <<>>
    /\ threads = [t \in THREADS |-> IdleThread]
    /\ bcl_data = ALEXA_LOG_C_CURVE_BCL_DATA
    /\ conversion_data = ALEXA_LOG_C_CURVE_CONVERSION_DATA
    /\ colourspaces = COLOURSPACES
    /\ readme = <<>>
    /\ description = <<>>
    /\ long_description = <<>>

\* A call of the transfer function.
TransferFunction(value, firmware, method, EI) ==
    /\ pc = "idle"
    /\ pc' = "returned"
    /\ call' = [fn |-> "transfer", value |-> value, firmware |-> firmware,
                method |-> method, EI |-> EI]
    /\ coeffs' = ConversionDataLookup(conversion_data, firmware, method, EI).tuple
    /\ ret' = ALEXA_WIDE_GAMUT_RGB_TRANSFER_FUNCTION(
                  conversion_data, value, firmware, method, EI)
    /\ encoded_from' = <<>>
    /\ UNCHANGED <<threads, bcl_data, conversion_data, colourspaces,
                 readme, description, long_description>>

\* A call of the inverse transfer function.
InverseTransferFunction(value, firmware, method, EI) ==
    /\ pc = "idle"
    /\ pc' = "returned"
    /\ call' = [fn |-> "inverse", value |-> value, firmware |-> firmware,
                method |-> method, EI |-> EI]
    /\ coeffs' = ConversionDataLookup(conversion_data, firmware, method, EI).tuple
    /\ ret' = ALEXA_WIDE_GAMUT_RGB_INVERSE_TRANSFER_FUNCTION(
                  conversion_data, value, firmware, method, EI)
    /\ encoded_from' = <<>>
    /\ UNCHANGED <<threads, bcl_data, conversion_data, colourspaces,
                 readme, description, long_description>>

\* A call of the inverse transfer function on the value the transfer
\* function has just returned, with the same firmware, method and EI.
InverseOfEncoded ==
    /\ pc = "returned"
    /\ call.fn = "transfer"
    /\ ret.kind = "value"
    /\ call' = [call EXCEPT !.fn = "inverse", !.value = ret.val]
    /\ coeffs' = ConversionDataLookup(
                     conversion_data, call.firmware, call.method, call.EI).tuple
    /\ ret' = ALEXA_WIDE_GAMUT_RGB_INVERSE_TRANSFER_FUNCTION(
                  conversion_data, ret.val, call.firmware, call.method, call.EI)
    /\ encoded_from' = <<call.value>>
    /\ UNCHANGED <<pc, threads, bcl_data, conversion_data, colourspaces,
                 readme, description, long_description>>

\* The caller is done with the result.
Discard ==
    /\ pc = "returned"
    /\ pc' = "idle"
    /\ call' = NoCall
    /\ coeffs' = <<>>
    /\ ret' = NoReturn
    /\ encoded_from' = <<>>
    /\ UNCHANGED <<threads, bcl_data, conversion_data, colourspaces,
                 readme, description, long_description>>

Next ==
    \/ \E value \in LINEAR_INPUTS, firmware \in FIRMWARES,
          method \in METHODS, EI \in EIS :
          TransferFunction(value, firmware, method, EI)
    \/ \E value \in ENCODED_INPUTS, firmware \in FIRMWARES,
          method \in METHODS, EI \in EIS :
          InverseTransferFunction(value, firmware, method, EI)
    \/ InverseOfEncoded
    \/ Discard

Spec == Init /\ [][Next]_vars

(***************************************************************************)
(* Concurrent callers.  The lookup of lines 192 and 214 is three dict.get  *)
(* calls in a row; each is one step of its caller, and the steps of        *)
(* different callers interleave.                                           *)
(***************************************************************************)
\* the keys of the concurrent calls: one the table holds, and one with an
\* absent firmware, an absent method and an absent EI each
THREAD_KEYS ==
    {<<"SUP 3.x", LSEF, 800>>, <<"SUP 4.x", LSEF, 800>>,
     <<"SUP 3.x", "Video", 800>>, <<"SUP 3.x", LSEF, 2000>>}

\* the concurrent calls: the transfer function on 0.18 and the inverse
\* transfer function on 0.5, with each of the keys
THREAD_CALLS ==
    {[fn |-> "transfer", value |-> 180000, firmware |-> k[1],
      method |-> k[2], EI |-> k[3]] : k \in THREAD_KEYS}
    \cup {[fn |-> "inverse", value |-> 500000, firmware |-> k[1],
           method |-> k[2], EI |-> k[3]] : k \in THREAD_KEYS}

\* Caller t enters one of the two functions.
ThreadCall(t, c) ==
    /\ threads[t].pc = "idle"
    /\ threads' = [threads EXCEPT ![t] = [pc |-> "get_firmware", call |-> c,
                                          local |-> <<>>, ret |-> NoReturn]]
    /\ UNCHANGED <<pc, call, coeffs, ret, encoded_from,
                   bcl_data, conversion_data, colourspaces,
                 readme, description, long_description>>

\* A variant that stores an empty dictionary under an absent firmware, as
\* dict.setdefault does.
ThreadSetDefaultFirmware(t) ==
    /\ threads[t].pc = "get_firmware"
    /\ conversion_data' =
           [k \in DOMAIN conversion_data \cup {threads[t].call.firmware} |->
               IF k \in DOMAIN conversion_data THEN conversion_data[k]
               ELSE DictLiteral(<<>>)]
    /\ threads' = [threads EXCEPT
                      ![t].pc = "get_method",
                      ![t].local = <<conversion_data'[threads[t].call.firmware]>>]
    /\ UNCHANGED <<pc, call, coeffs, ret, encoded_from, bcl_data, colourspaces,
                 readme, description, long_description>>

\* ALEXA_LOG_C_CURVE_CONVERSION_DATA.get(firmware)
ThreadGetFirmware(t) ==
    /\ threads[t].pc = "get_firmware"
    /\ threads' = [threads EXCEPT
                      ![t].pc = "get_method",
                      ![t].local = DictGet(conversion_data,
                                           threads[t].call.firmware)]
    /\ UNCHANGED <<pc, call, coeffs, ret, encoded_from,
                   bcl_data, conversion_data, colourspaces,
                 readme, description, long_description>>

\* .get(method): None has no attribute get.
ThreadGetMethod(t) ==
    /\ threads[t].pc = "get_method"
    /\ threads' = [threads EXCEPT ![t] =
           IF threads[t].local = <<>>
           THEN [@ EXCEPT !.pc = "returned", !.ret = Raises("AttributeError")]
           ELSE [@ EXCEPT !.pc = "get_EI",
                          !.local = DictGet(threads[t].local[1],
                                            threads[t].call.method)]]
    /\ UNCHANGED <<pc, call, coeffs, ret, encoded_from,
                   bcl_data, conversion_data, colourspaces,
                 readme, description, long_description>>

\* .get(EI): None has no attribute get.
ThreadGetEI(t) ==
    /\ threads[t].pc = "get_EI"
    /\ threads' = [threads EXCEPT ![t] =
           IF threads[t].local = <<>>
           THEN [@ EXCEPT !.pc = "returned", !.ret = Raises("AttributeError")]
           ELSE [@ EXCEPT !.pc = "unpack",
                          !.local = DictGet(threads[t].local[1],
                                            threads[t].call.EI)]]
    /\ UNCHANGED <<pc, call, coeffs, ret, encoded_from,
                   bcl_data, conversion_data, colourspaces,
                 readme, description, long_description>>

\* The unpacking of the tuple (None cannot be unpacked) and the return
\* statement of the function the caller is in.
ThreadReturn(t) ==
    /\ threads[t].pc = "unpack"
    /\ threads' = [threads EXCEPT ![t] =
           [@ EXCEPT !.pc = "returned",
                     !.ret = IF threads[t].local = <<>>
                             THEN Raises("TypeError")
                             ELSE IF threads[t].call.fn = "transfer"
                             THEN IF threads[t].call.value > Cut(threads[t].local[1])
                                  THEN LogSegment(threads[t].local[1],
                                                  threads[t].call.value)
                                  ELSE Returns(Ecutf(threads[t].local[1]))
                             ELSE IF threads[t].call.value > Ecutf(threads[t].local[1])
                                  THEN ExpSegment(threads[t].local[1],
                                                  threads[t].call.value)
                                  ELSE LinearSegment(threads[t].local[1],
                                                     threads[t].call.value)]]
    /\ UNCHANGED <<pc, call, coeffs, ret, encoded_from,
                   bcl_data, conversion_data, colourspaces,
                 readme, description, long_description>>

\* Caller t is done with the result.
ThreadDiscard(t) ==
    /\ threads[t].pc = "returned"
    /\ threads' = [threads EXCEPT ![t] = IdleThread]
    /\ UNCHANGED <<pc, call, coeffs, ret, encoded_from,
                   bcl_data, conversion_data, colourspaces,
                 readme, description, long_description>>

NextThreads ==
    \E t \in THREADS :
        \/ \E c \in THREAD_CALLS : ThreadCall(t, c)
        \/ ThreadGetFirmware(t)
        \/ ThreadGetMethod(t)
        \/ ThreadGetEI(t)
        \/ ThreadReturn(t)
        \/ ThreadDiscard(t)

SpecThreads == Init /\ [][NextThreads]_vars

(***************************************************************************)
(* setup.py: the long description read from README.rst.  A line is the     *)
(* sequence of its characters, the line terminator included.               *)
(***************************************************************************)
NL == "\n"

DIRECTIVE ==
    <<".", ".", " ", "c", "o", "d", "e", ":", ":", " ",
      "p", "y", "t", "h", "o", "n">>

\* The lines a README is made of here.  The last two have no terminator,
\* so they can only be the last line of the file.
README_LINES ==
    {<<"x", NL>>,
     <<"x", ":", NL>>,
     <<"x", ":", ":", NL>>,
     <<"x", ":", "x", NL>>,
     <<":", NL>>,
     DIRECTIVE \o <<NL>>,
     DIRECTIVE \o <<":", NL>>,
     <<"x", ":">>,
     DIRECTIVE}

\* Python's  sub in s  on strings.
Contains(sub, s) ==
    \E i \in 1..(Len(s) - Len(sub) + 1) : SubSeq(s, i, i + Len(sub) - 1) = sub

EndsWith(s, suffix) ==
    /\ Len(s) >= Len(suffix)
    /\ SubSeq(s, Len(s) - Len(suffix) + 1, Len(s)) = suffix

\* re.search of the literal followed by $: the literal at the end of the
\* string, or just before a newline that is the last character.
SearchAtEnd(literal, s) ==
    \/ EndsWith(s, literal)
    \/ EndsWith(s, literal \o <<NL>>)

\* A variant that splits at the first separator, as str.split does.
SplitFirst(s, sep, maxsplit) ==
    IF maxsplit = 0 \/ ~\E i \in 1..Len(s) : s[i] = sep THEN <<s>>
    ELSE LET i == CHOOSE k \in 1..Len(s) :
                      s[k] = sep /\ \A l \in 1..(k - 1) : s[l] # sep
         IN <<SubSeq(s, 1, i - 1), SubSeq(s, i + 1, Len(s))>>

\* str.rsplit(sep, maxsplit) for a separator of one character and
\* maxsplit 0 or 1: the split is at the last separator.
rsplit(s, sep, maxsplit) ==
    IF maxsplit = 0 \/ ~\E i \in 1..Len(s) : s[i] = sep THEN <<s>>
    ELSE LET i == CHOOSE k \in 1..Len(s) :
                      s[k] = sep /\ \A l \in (k + 1)..Len(s) : s[l] # sep
         IN <<SubSeq(s, 1, i - 1), SubSeq(s, i + 1, Len(s))>>

\* str.join
RECURSIVE join(_, _)
join(sep, parts) ==
    IF parts = <<>> THEN <<>>
    ELSE IF Len(parts) = 1 THEN parts[1]
    ELSE parts[1] \o sep \o join(sep, Tail(parts))

\* One iteration of the loop over the lines of the file.
ReadLine(line) ==
    /\ long_description = <<>>
    /\ Len(readme) < MaxLines
    /\ readme # <<>> => EndsWith(readme[Len(readme)], <<NL>>)
    /\ readme' = Append(readme, line)
    /\ IF Contains(DIRECTIVE, line) /\ Len(description) >= 2
       THEN LET blockLine == description[Len(description) - 1]
            IN IF SearchAtEnd(<<":">>, blockLine)
                  /\ ~SearchAtEnd(<<":", ":">>, blockLine)
               THEN description' =
                        [description EXCEPT ![Len(description) - 1] =
                            join(<<":", ":">>, rsplit(blockLine, ":", 1))]
               ELSE description' = description
       ELSE description' = Append(description, line)
    /\ UNCHANGED <<pc, call, coeffs, ret, encoded_from, threads, bcl_data,
                   conversion_data, colourspaces, long_description>>

\* The file has no more lines: the function returns.
get_long_description ==
    /\ long_description = <<>>
    /\ long_description' = <<join(<<>>, description)>>
    /\ UNCHANGED <<pc, call, coeffs, ret, encoded_from, threads, bcl_data,
                   conversion_data, colourspaces, readme, description>>

NextSetup ==
    \/ \E line \in README_LINES : ReadLine(line)
    \/ get_long_description

SpecSetup == Init /\ [][NextSetup]_vars



(***************************************************************************)
(* Properties of the transfer functions.                                   *)
(***************************************************************************)
Returned == pc = "returned"

\* The firmware, method and EI of the call are keys of the table.
KeyPresent ==
    /\ call.firmware \in DOMAIN conversion_data
    /\ call.method \in DOMAIN conversion_data[call.firmware]
    /\ call.EI \in DOMAIN conversion_data[call.firmware][call.method]

\* The tuple the table holds for the call.
Entry == conversion_data[call.firmware][call.method][call.EI]

\* 1e-4: what "gives x back up to tolerance" allows.
ROUND_TRIP_TOLERANCE == Scale \div 10000

\* 1e-5: the last digit the table prints ecutf with.
PRINTED_PRECISION == Scale \div 100000

\* The exceptions Python derives from LookupError.
LOOKUP_ERRORS == {"LookupError", "KeyError", "IndexError"}

\* C1: for every entry of the table and every input x >= 0, on the linear
\* segment as well as on the logarithmic one, the inverse transfer function
\* applied to the transfer function's result gives x back up to tolerance.
C1_RoundTrip ==
    (Returned /\ encoded_from # <<>> /\ encoded_from[1] >= 0 /\ ret.kind = "value")
        => Abs(ret.val - encoded_from[1]) <= ROUND_TRIP_TOLERANCE

\* C2: when the firmware, the method or the EI is not a key of the table,
\* both functions fail with an error of the LookupError kind.
C2_AbsentKeyIsLookupError ==
    (Returned /\ ~KeyPresent)
        => (ret.kind = "raise" /\ ret.exc \in LOOKUP_ERRORS)

\* C3: the default configuration ("SUP 3.x", "Linear Scene Exposure Factor",
\* 800) yields the coefficients (0.010591, 5.555556, 0.052272, 0.247190,
\* 0.385537, 5.367655, 0.092809, 0.149658), so that the transfer function
\* of 0.18 is 0.247190 * log10(5.555556 * 0.18 + 0.052272) + 0.385537.
C3_DefaultCoefficients ==
    (Returned /\ call.firmware = "SUP 3.x" /\ call.method = LSEF /\ call.EI = 800)
        => /\ coeffs = <<10591, 5555556, 52272, 247190, 385537, 5367655,
                         92809, 149658>>
           /\ (call.fn = "transfer" /\ call.value = 180000)
                  => ret = Returns(Mul(247190, Log10(Mul(5555556, 180000) + 52272))
                                       + 385537)

\* C4: for both documented firmwares, both methods and every listed EI, the
\* two functions find a coefficient tuple and return a value (on inputs of
\* their domains: encoded values are at most 1).
C4_DocumentedKeysSupported ==
    (/\ Returned
     /\ call.firmware \in {"SUP 2.x", "SUP 3.x"}
     /\ call.method \in {LSEF, NSS}
     /\ call.EI \in LISTED_EIS
     /\ call.fn = "inverse" => call.value <= Scale)
        => (coeffs # <<>> /\ ret.kind = "value")

\* C5: the transfer function returns c * log10(a * value + b) + d when
\* value > cut and the constant ecutf for every value <= cut, with the
\* tuple the table holds for the firmware, method and EI.
C5_ForwardPiecewise ==
    (Returned /\ call.fn = "transfer" /\ KeyPresent)
        => IF call.value > Entry[1]
           THEN ret = Returns(Mul(Entry[4], Log10(Mul(Entry[2], call.value) + Entry[3]))
                                  + Entry[5])
           ELSE ret = Returns(Entry[8])

\* a call on the logarithmic segment, and one on the flat segment, returned
C5_Witness ==
    /\ Returned /\ call.fn = "transfer" /\ KeyPresent
    /\ call.value = 180000 /\ call.value > Entry[1]
    /\ ret.kind = "value" /\ ret.val > Entry[8]

C7_ContinuousAtCut ==
    (Returned /\ call.fn = "transfer" /\ KeyPresent /\ call.value = Entry[1])
        => /\ ret = Returns(Entry[8])
           /\ Abs(Mul(Entry[4], Log10(Mul(Entry[2], Entry[1]) + Entry[3]))
                      + Entry[5] - Entry[8]) <= PRINTED_PRECISION

\* the transfer function was called at a non-zero cut
C7_Witness ==
    /\ Returned /\ call.fn = "transfer" /\ KeyPresent
    /\ call.value = Entry[1] /\ call.value > 0
    /\ ret.val = Entry[8]

\* C8 as stated: for a key of the table, the logarithm argument is positive
\* for every value > cut, the divisors a, c and e are non-zero, and neither
\* function raises for any input value.
C8_NeverRaises ==
    (Returned /\ KeyPresent)
        => /\ Entry[2] # 0 /\ Entry[4] # 0 /\ Entry[6] # 0
           /\ (call.fn = "transfer" /\ call.value > Entry[1])
                  => Mul(Entry[2], call.value) + Entry[3] > 0
           /\ ret.kind = "value"

\* C8 as amended: for a key of the table, the logarithm argument is positive
\* for every value > cut and the divisors a, c and e are non-zero, so the
\* transfer function never raises, and the inverse raises only
\* OverflowError, when value > ecutf and (value - d) / c is beyond the
\* exponent of the largest double.
C8_RaisesOnlyOverflow ==
    (Returned /\ KeyPresent)
        => /\ Entry[2] # 0 /\ Entry[4] # 0 /\ Entry[6] # 0
           /\ (call.fn = "transfer" /\ call.value > Entry[1])
                  => Mul(Entry[2], call.value) + Entry[3] > 0
           /\ call.fn = "transfer" => ret.kind = "value"
           /\ (call.fn = "inverse" /\ ret.kind # "value")
                  => /\ ret.exc = "OverflowError"
                     /\ call.value > Entry[8]
                     /\ Div(call.value - Entry[5], Entry[4]) > POW10_MAX_EXPONENT

\* the transfer function returned on the logarithmic segment of an entry
\* whose b is negative
C8_Witness ==
    /\ Returned /\ call.fn = "transfer" /\ KeyPresent
    /\ Entry[3] < 0 /\ call.value > Entry[1]
    /\ ret.kind = "value"

(***************************************************************************)
(* Properties of the colourspace records.                                  *)
(***************************************************************************)
BLACKMAGIC_NAMES == {cs.name : cs \in BLACKMAGIC_COLOURSPACES}

\* C9: in every colourspace record, the XYZ to RGB matrix is the inverse of
\* the RGB to XYZ matrix of the same record: their product is the identity.
C9_MatricesAreInverses ==
    \A n \in DOMAIN colourspaces :
        RationalEq(dot(colourspaces[n].matrix_XYZ_to_RGB,
                       colourspaces[n].matrix_RGB_to_XYZ), IDENTITY)

\* the seven records are loaded, and a record's two matrices differ
C9_Witness ==
    /\ Cardinality(DOMAIN colourspaces) = 7
    /\ \A n \in DOMAIN colourspaces :
           ~RationalEq(colourspaces[n].matrix_XYZ_to_RGB,
                       colourspaces[n].matrix_RGB_to_XYZ)

\* C10 as stated: in every colourspace record, the RGB to XYZ matrix is the
\* normalised primary matrix of the record's own primaries and whitepoint.
C10_EveryMatrixIsDerived ==
    \A n \in DOMAIN colourspaces :
        RationalEq(colourspaces[n].matrix_RGB_to_XYZ,
                   normalised_primary_matrix(colourspaces[n].primaries,
                                             colourspaces[n].whitepoint))

\* C10 as amended: in each of the six Blackmagic records, the RGB to XYZ
\* matrix is the normalised primary matrix of the record's own primaries and
\* whitepoint; the matrix of ALEXA Wide Gamut RGB is the six-decimal literal
\* of the source, which is not that of its primaries and whitepoint.
C10_BlackmagicMatricesAreDerived ==
    /\ \A n \in BLACKMAGIC_NAMES :
           RationalEq(colourspaces[n].matrix_RGB_to_XYZ,
                      normalised_primary_matrix(colourspaces[n].primaries,
                                                colourspaces[n].whitepoint))
    /\ colourspaces["ALEXA Wide Gamut RGB"].matrix_RGB_to_XYZ
           = Rational(<<<<638008, 214704, 97744>>,
                        <<291954, 823841, -115795>>,
                        <<2798, -67034, 1153294>>>>, Scale)

\* the six Blackmagic records are loaded, no two with the same primaries
C10_Witness ==
    /\ BLACKMAGIC_NAMES \subseteq DOMAIN colourspaces
    /\ Cardinality({colourspaces[n].primaries : n \in BLACKMAGIC_NAMES}) = 6
    /\ Cardinality({colourspaces[n].matrix_RGB_to_XYZ : n \in BLACKMAGIC_NAMES}) = 6

\* C11 as stated: the whitepoint of every colourspace record is a chromaticity
\* pair that the shared illuminant table holds for some observer and some
\* illuminant name.
C11_EveryWhitepointIsLookedUp ==
    \A n \in DOMAIN colourspaces :
        \E o \in DOMAIN CCS_ILLUMINANTS :
            \E i \in DOMAIN CCS_ILLUMINANTS[o] :
                colourspaces[n].whitepoint = CCS_ILLUMINANTS[o][i]

\* C11 as amended: the whitepoint of ALEXA Wide Gamut RGB and of every
\* Blackmagic record whose whitepoint name is D65 is the D65 entry of the
\* illuminant table under the CIE 1931 2 Degree Standard Observer; every
\* other record is named BMD White, a name the table does not hold, and its
\* whitepoint is the literal (0.3135, 0.3305), which is not the D65 entry.
C11_WhitepointIsD65OrBMDWhite ==
    /\ colourspaces["ALEXA Wide Gamut RGB"].whitepoint
           = ILLUMINANTS["CIE 1931 2 Degree Standard Observer"]["D65"]
    /\ \A n \in BLACKMAGIC_NAMES :
           IF colourspaces[n].whitepoint_name = "D65"
           THEN colourspaces[n].whitepoint
                    = CCS_ILLUMINANTS["CIE 1931 2 Degree Standard Observer"]["D65"]
           ELSE /\ colourspaces[n].whitepoint_name = "BMD White"
                /\ colourspaces[n].whitepoint = <<3135, 3305>>
                /\ \A o \in DOMAIN CCS_ILLUMINANTS :
                       /\ "BMD White" \notin DOMAIN CCS_ILLUMINANTS[o]
                       /\ \A i \in DOMAIN CCS_ILLUMINANTS[o] :
                              CCS_ILLUMINANTS[o][i] # colourspaces[n].whitepoint

\* the seven records are loaded: three Blackmagic records are named D65 and
\* three are named BMD White
C11_Witness ==
    /\ Cardinality(DOMAIN colourspaces) = 7
    /\ Cardinality({n \in BLACKMAGIC_NAMES :
                       colourspaces[n].whitepoint_name = "D65"}) = 3
    /\ Cardinality({n \in BLACKMAGIC_NAMES :
                       colourspaces[n].whitepoint_name = "BMD White"}) = 3

(***************************************************************************)
(* Properties of the concurrent callers.                                   *)
(***************************************************************************)
\* C12: after any sequence and under any interleaving of calls of the two
\* functions, calls that fail on an absent key included, the two coefficient
\* tables and the colourspace records hold their load-time contents.
C12_TablesUnchanged ==
    /\ bcl_data = ALEXA_LOG_C_CURVE_BCL_DATA
    /\ conversion_data = ALEXA_LOG_C_CURVE_CONVERSION_DATA
    /\ colourspaces = COLOURSPACES

\* one caller has failed on an absent key while another is in the middle of
\* its lookup
C12_Witness ==
    \E t, u \in THREADS :
        /\ t # u
        /\ threads[t].pc = "returned"
        /\ threads[t].ret.kind = "raise"
        /\ threads[t].ret.exc \in {"AttributeError", "TypeError"}
        /\ threads[u].pc \in {"get_method", "get_EI", "unpack"}

\* C13: the colourspace record named ALEXA Wide Gamut RGB has
\* (0.6840, 0.3130) as the first (red) row of its primaries.
C13_AlexaRedPrimary ==
    /\ "ALEXA Wide Gamut RGB" \in DOMAIN colourspaces
    /\ colourspaces["ALEXA Wide Gamut RGB"].name = "ALEXA Wide Gamut RGB"
    /\ colourspaces["ALEXA Wide Gamut RGB"].primaries[1] = <<6840, 3130>>

\* a call has returned, and the record read then has three rows of
\* primaries, the red one unlike the green and the blue one
C13_Witness ==
    /\ pc = "returned"
    /\ DOMAIN colourspaces["ALEXA Wide Gamut RGB"].primaries = 1..3
    /\ colourspaces["ALEXA Wide Gamut RGB"].primaries[2] # <<6840, 3130>>
    /\ colourspaces["ALEXA Wide Gamut RGB"].primaries[3] # <<6840, 3130>>

\* The curves whose log_encoding_ and log_decoding_ functions the
\* Blackmagic module imports.
LOG_CURVES ==
    {"BMDFilm", "BMD4KFilm", "BMD46KFilm",
     "BMDPocket4KFilmV4", "BMDPocket6KFilmV4"}

\* C15: each of the six Blackmagic records has the encoding function of
\* one of the imported curves, and whenever its encoding function is
\* log_encoding_X its decoding function is log_decoding_X.
C15_EncodingPairsWithDecoding ==
    /\ Cardinality(BLACKMAGIC_NAMES) = 6
    /\ \A n \in BLACKMAGIC_NAMES :
          /\ n \in DOMAIN colourspaces
          /\ \E X \in LOG_CURVES :
                colourspaces[n].cctf_encoding = "log_encoding_" \o X
          /\ \A X \in LOG_CURVES :
                colourspaces[n].cctf_encoding = "log_encoding_" \o X
                    => colourspaces[n].cctf_decoding = "log_decoding_" \o X

\* a call has returned, the six records use four different curves, two
\* records share the 4K curve, and one imported curve is used by none
C15_Witness ==
    /\ pc = "returned"
    /\ Cardinality({colourspaces[n].cctf_encoding : n \in BLACKMAGIC_NAMES}) = 4
    /\ colourspaces["BMD 4K Film V1"].cctf_encoding = "log_encoding_BMD4KFilm"
    /\ colourspaces["BMD 4K Film V3"].cctf_decoding = "log_decoding_BMD4KFilm"
    /\ \E X \in LOG_CURVES : \A n \in BLACKMAGIC_NAMES :
          colourspaces[n].cctf_encoding # "log_encoding_" \o X

(***************************************************************************)
(* Properties of the long description.                                     *)
(***************************************************************************)
\* C14: the lines read so far are processed in order: a line is dropped
\* if and only if it contains the directive and at least two earlier
\* lines were kept; a kept line is rewritten, its final colon doubled, if
\* and only if it ends (before its terminator) in a single colon and some
\* dropped line found it second to last among the lines kept until then;
\* every other kept line is unchanged; and what is returned is the
\* concatenation of the kept lines.
C14_LongDescriptionKeepsAndRewrites ==
    LET RECURSIVE KeptCount(_)
        KeptCount(j) ==
            IF j = 0 THEN 0
            ELSE IF Contains(DIRECTIVE, readme[j]) /\ KeptCount(j - 1) >= 2
                 THEN KeptCount(j - 1)
                 ELSE KeptCount(j - 1) + 1
        Dropped(j) == KeptCount(j) = KeptCount(j - 1)
        \* the line of the file that is the i-th kept one
        Origin(i) ==
            CHOOSE j \in 1..Len(readme) : ~Dropped(j) /\ KeptCount(j) = i
        Text(l) ==
            IF l # <<>> /\ l[Len(l)] = NL THEN SubSeq(l, 1, Len(l) - 1) ELSE l
        Terminator(l) ==
            IF l # <<>> /\ l[Len(l)] = NL THEN <<NL>> ELSE <<>>
        SingleColon(l) ==
            /\ Len(Text(l)) >= 1
            /\ Text(l)[Len(Text(l))] = ":"
            /\ Len(Text(l)) >= 2 => Text(l)[Len(Text(l)) - 1] # ":"
        Rewritten(i) ==
            /\ SingleColon(readme[Origin(i)])
            /\ \E j \in 1..Len(readme) : Dropped(j) /\ KeptCount(j) = i + 1
        RECURSIVE Concatenation(_)
        Concatenation(n) ==
            IF n = 0 THEN <<>> ELSE Concatenation(n - 1) \o description[n]
    IN /\ Len(description) = KeptCount(Len(readme))
       /\ \A i \in 1..Len(description) :
             description[i] =
                 IF Rewritten(i)
                 THEN Text(readme[Origin(i)]) \o <<":">>
                          \o Terminator(readme[Origin(i)])
                 ELSE readme[Origin(i)]
       /\ long_description # <<>> =>
             long_description[1] = Concatenation(Len(description))

\* the function has returned after a directive line was kept as the first
\* line, a line ending in one colon and a plain line were kept, and a
\* second directive line was dropped and doubled the colon
C14_Witness ==
    /\ long_description # <<>>
    /\ Len(readme) = 4
    /\ Len(description) = 3
    /\ Contains(DIRECTIVE, description[1])
    /\ Contains(DIRECTIVE, readme[4])
    /\ readme[2] = <<"x", ":", NL>>
    /\ description[2] = <<"x", ":", ":", NL>>
    /\ description[3] = readme[3]

====
